---- MODULE Spec2Model ----
(***************************************************************************)
(* Model of image_batch_compressor.py: ImageCompressor.compress_image      *)
(* (one job per file), the three format strategies, create_backup, and     *)
(* process_files / main (sequential loop or ThreadPoolExecutor).           *)
(*                                                                         *)
(* A job is the index of its path in the list `files`.  The file system is *)
(* split by role: orig[j] is the source file of job j, mirror[j] its copy  *)
(* under backup_dir, scratch[n] the NamedTemporaryFile named n and         *)
(* tmpout[n] the file "<n>.tmp" that cjpeg and pngquant write.             *)
(* Every statement `self.stats[k] += v` is a load followed by a store:     *)
(* two steps of the thread that runs the job.                              *)
(***************************************************************************)
EXTENDS Integers, Sequences, FiniteSets, TLC

\* ---------------------------------------------------------------- bounds
\* The longest list of files a run is given, the largest max_workers, the
\* largest file size in bytes and the number of times main is run on the
\* same directory.
MaxFiles == 2
MaxWorkers == 2
MaxSize == 3
MaxRuns == 2

Least(S) == CHOOSE n \in S : \A m \in S : n <= m

ScratchNames == 1..MaxFiles
Sizes == 1..MaxSize

\* ---------------------------------------------------------------- data
\* IMAGE_EXTENSIONS (line 22), up to the branches compress_image takes:
\* .jpg/.jpeg, .png, .gif, and the rest (.bmp, .webp, .tiff).
IMAGE_EXTENSIONS == {".jpg", ".png", ".gif", ".bmp"}

Tools == {"mozjpeg", "optipng", "pngquant", "zopflipng", "gifsicle"}

StatKeys == {"total_files", "processed", "compressed", "failed",
             "original_size", "compressed_size", "space_saved"}

\* A file's content: whose image it is, how many tool passes produced it,
\* its byte size, and whether it was written completely.
NoFile == [src |-> 0, ver |-> 0, size |-> 0, whole |-> FALSE]
EmptyFile == [src |-> 0, ver |-> 0, size |-> 0, whole |-> TRUE]
Image(j, s) == [src |-> j, ver |-> 0, size |-> s, whole |-> TRUE]
Exists(f) == f # NoFile

\* What a tool writes when it succeeds on input c: a complete file of size s.
ToolOutput(c, s) == [src |-> c.src, ver |-> c.ver + 1, size |-> s, whole |-> TRUE]

\* What a destination holds when a write of c stops after k bytes.
Partial(c, k) == [src |-> c.src, ver |-> c.ver, size |-> k, whole |-> FALSE]
Partials(c) == {Partial(c, k) : k \in 0..(c.size - 1)}

VARIABLES
    \* configuration (ImageCompressor.__init__, main) and the list `files`:
    \* job j is the j-th path of the list, with extension file_ext[j]
    backup_enabled, force_no_backup_check, available_tools, max_workers,
    nfiles, file_ext,
    \* file system
    orig, mirror, scratch, tmpout,
    \* shared statistics
    stats,
    \* per job: position and locals of compress_image
    pc, original_size, temp_path, compressed, compressed_size, raised, ret,
    reg, loaded,
    \* orchestrator (process_files, main)
    opc, idx, queue, pbar, snapshot,
    \* history
    pre, art, bk, calls, events, runs, incs, outcome,
    \* earlier runs of main on the same directory
    past

cfgVars == <<backup_enabled, force_no_backup_check, available_tools,
             max_workers, nfiles, file_ext>>
fsVars == <<orig, mirror, scratch, tmpout>>
jobVars == <<pc, original_size, temp_path, compressed, compressed_size,
             raised, ret, reg, loaded>>
orchVars == <<opc, idx, queue, pbar, snapshot>>
histVars == <<pre, art, bk, calls, events, runs, incs, outcome>>
vars == <<cfgVars, fsVars, stats, jobVars, orchVars, histVars, past>>

Jobs == 1..nfiles

\* self.stats of __init__ (lines 31-39)
InitStats == [k \in StatKeys |-> 0]

\* The state after ImageCompressor(...) and find_image_files, at the call of
\* process_files (line 411): no job has started, the counters are zero.
Start ==
    /\ mirror = [j \in Jobs |-> NoFile]
    /\ scratch = [n \in ScratchNames |-> NoFile]
    /\ tmpout = [n \in ScratchNames |-> NoFile]
    /\ stats = InitStats
    /\ pc = [j \in Jobs |-> "idle"]
    /\ original_size = [j \in Jobs |-> 0]
    /\ temp_path = [j \in Jobs |-> 0]
    /\ compressed = [j \in Jobs |-> FALSE]
    /\ compressed_size = [j \in Jobs |-> 0]
    /\ raised = [j \in Jobs |-> FALSE]
    /\ ret = [j \in Jobs |-> FALSE]
    /\ reg = [j \in Jobs |-> 0]
    /\ loaded = [j \in Jobs |-> FALSE]
    /\ opc = "L273"
    /\ idx = 1
    /\ queue = <<>>
    /\ pbar = 0
    /\ snapshot = InitStats
    /\ pre = orig
    /\ art = [j \in Jobs |-> NoFile]
    /\ bk = [j \in Jobs |-> "none"]
    /\ calls = [j \in Jobs |-> <<>>]
    /\ events = [j \in Jobs |-> <<>>]
    /\ runs = [j \in Jobs |-> 0]
    /\ incs = [j \in Jobs |-> [k \in StatKeys |-> 0]]
    /\ outcome = [j \in Jobs |-> "none"]
    /\ past = <<>>

\* A run on one file: every capability set, every backup setting, every
\* extension, the file present with any size or gone since the scan.
InitSingle ==
    /\ nfiles = 1
    /\ backup_enabled \in BOOLEAN
    /\ force_no_backup_check \in BOOLEAN
    /\ available_tools \in [Tools -> BOOLEAN]
    /\ max_workers \in 1..MaxWorkers
    /\ file_ext \in [1..1 -> IMAGE_EXTENSIONS]
    /\ orig \in [1..1 -> {NoFile} \cup {Image(1, s) : s \in Sizes}]
    /\ Start

\* A run with --no-backup on a batch of JPEG files, each of the smallest
\* size that can still shrink, with every tool installed, for every worker
\* count.
InitBatch ==
    /\ nfiles \in 2..MaxFiles
    /\ backup_enabled = FALSE
    /\ force_no_backup_check = FALSE
    /\ available_tools = [t \in Tools |-> TRUE]
    /\ max_workers \in 1..MaxWorkers
    /\ file_ext = [j \in Jobs |-> ".jpg"]
    /\ orig = [j \in Jobs |-> Image(j, Least({s \in Sizes : s > 1}))]
    /\ Start

Init == InitSingle \/ InitBatch

\* ------------------------------------------------- create_backup (71-93)
\* Lines 74-78: the two early `return True`.
BackupBypassed == force_no_backup_check \/ ~backup_enabled

\* Faulty variant of create_backup_result: the except clause returns True.
BackupReturnsTrueAlways(copied) == TRUE

\* Lines 90 and 93: True after copy2 returned, False from the except clause.
create_backup_result(copied) == copied

\* Faulty variant of MirrorWrite: a mirror that exists is kept.
MirrorKeepsFirst(old, new) == IF Exists(old) THEN old ELSE new

\* Line 89: shutil.copy2 that returns has replaced whatever the mirror path
\* held by the source's content.
MirrorWrite(old, new) == new

\* What lines 81-89 can leave at the mirror path of job j, and whether they
\* ran to the end: mkdir or relative_to raises (mirror untouched), copy2
\* stops while writing, copy2 raises in copystat after the bytes are
\* written, or copy2 returns.
BackupEffects(j) ==
    IF ~Exists(orig[j])
    THEN {[mirror |-> mirror[j], copied |-> FALSE]}
    ELSE {[mirror |-> mirror[j], copied |-> FALSE],
          [mirror |-> orig[j], copied |-> FALSE],
          [mirror |-> MirrorWrite(mirror[j], orig[j]), copied |-> TRUE]}
         \cup {[mirror |-> p, copied |-> FALSE] : p \in Partials(orig[j])}

\* Faulty variant of BackupGate: a failed backup is logged and the job
\* goes on.
BackupGateWarnOnly(ok) == "L183"

\* Lines 178-180: a failed backup returns False before the scratch file is
\* created; the outer finally (243) follows.
BackupGate(ok) == IF ok THEN "L183" ELSE "L243"

\* ------------------------------------------------ compress_image (171-243)
\* Faulty variant of SizeGate: equality admitted.
SizeGateAdmitsEqual(new, old) == new <= old

\* Line 208.
SizeGate(new, old) == new < old

\* Faulty variant of NewNames: a fixed name, whether or not it is in use.
FirstName == {Least(ScratchNames)}

\* The name NamedTemporaryFile (line 183) returns: it opens with O_EXCL, so
\* the name of a file that does not exist.  Names are interchangeable and
\* the model takes the least free one.
NewNames ==
    LET free == {n \in ScratchNames : ~Exists(scratch[n])}
    IN  IF free = {} THEN {} ELSE {Least(free)}

\* Faulty variant of ExceptHandler: no clause catches the exception and it
\* leaves compress_image.
OnlyOSErrorHandled(j) == "escaped"

\* Lines 230-241: an exception raised anywhere in compress_image reaches one
\* of the three except clauses (the last is `except Exception`), and each
\* increments failed.
ExceptHandler(j) == "L232"

\* Lines 174-175: os.path.getsize raises for a missing file, and may raise
\* for one it cannot stat.
GetSize(j) ==
    /\ pc[j] = "L175"
    /\ \/ /\ Exists(orig[j])
          /\ original_size' = [original_size EXCEPT ![j] = orig[j].size]
          /\ pc' = [pc EXCEPT ![j] = "L178"]
          /\ UNCHANGED raised
       \/ /\ raised' = [raised EXCEPT ![j] = TRUE]
          /\ pc' = [pc EXCEPT ![j] = ExceptHandler(j)]
          /\ UNCHANGED original_size
    /\ UNCHANGED <<cfgVars, past, fsVars, stats, temp_path, compressed,
                   compressed_size, ret, reg, loaded, orchVars, histVars>>

\* Lines 178-180 with create_backup (71-93).
CreateBackup(j) ==
    /\ pc[j] = "L178"
    /\ IF BackupBypassed
       THEN /\ pc' = [pc EXCEPT ![j] = BackupGate(TRUE)]
            /\ bk' = [bk EXCEPT ![j] = "off"]
            /\ UNCHANGED mirror
       ELSE \E e \in BackupEffects(j) :
            /\ mirror' = [mirror EXCEPT ![j] = e.mirror]
            /\ bk' = [bk EXCEPT ![j] = IF e.copied THEN "ok" ELSE "failed"]
            /\ pc' = [pc EXCEPT ![j] = BackupGate(create_backup_result(e.copied))]
    /\ UNCHANGED <<cfgVars, past, orig, scratch, tmpout, stats, original_size,
                   temp_path, compressed, compressed_size, raised, ret, reg, loaded,
                   orchVars, pre, art, calls, events, runs, incs, outcome>>

\* Lines 183-184: the empty scratch file, or an OSError outside the inner
\* try.
MakeTemp(j) ==
    /\ pc[j] = "L183"
    /\ \/ \E n \in NewNames :
            /\ scratch' = [scratch EXCEPT ![n] = EmptyFile]
            /\ temp_path' = [temp_path EXCEPT ![j] = n]
            /\ pc' = [pc EXCEPT ![j] = "L188"]
            /\ UNCHANGED raised
       \/ /\ raised' = [raised EXCEPT ![j] = TRUE]
          /\ pc' = [pc EXCEPT ![j] = ExceptHandler(j)]
          /\ UNCHANGED <<scratch, temp_path>>
    /\ UNCHANGED <<cfgVars, past, orig, mirror, tmpout, stats, original_size,
                   compressed, compressed_size, ret, reg, loaded, orchVars, histVars>>

\* Line 188, shutil.copy2(input_path, temp_path): it returns, or raises
\* with the scratch file as it was or partly written.
CopyToTemp(j) ==
    /\ pc[j] = "L188"
    /\ \/ /\ Exists(orig[j])
          /\ scratch' = [scratch EXCEPT ![temp_path[j]] = orig[j]]
          /\ pc' = [pc EXCEPT ![j] = "L192"]
          /\ UNCHANGED raised
       \/ /\ \E p \in {scratch[temp_path[j]]} \cup Partials(orig[j]) :
                scratch' = [scratch EXCEPT ![temp_path[j]] = p]
          /\ raised' = [raised EXCEPT ![j] = TRUE]
          /\ pc' = [pc EXCEPT ![j] = "L227"]
    /\ UNCHANGED <<cfgVars, past, orig, mirror, tmpout, stats, original_size,
                   temp_path, compressed, compressed_size, ret, reg, loaded,
                   orchVars, histVars>>

\* ------------------------------------------- the strategies (95-169)
Invoke(j, tool) == [calls EXCEPT ![j] = Append(@, tool)]

\* History: what the job went through, in order.  The i-th entry is how the
\* i-th tool of calls[j] ended ("ok", "failed" for a non-zero exit status,
\* "raised" when the call or the os.replace after it raised); the entries
\* after those name the branch of lines 198-223 the job took.
Note(j, e) == [events EXCEPT ![j] = Append(@, e)]

\* What a tool that stopped with an error may leave at "<scratch>.tmp":
\* nothing, or the beginning of its output.
Leftovers(c) == {NoFile, Partial(ToolOutput(c, 1), 0)}

\* Faulty variant of IsJpeg: .bmp, which cjpeg reads, is sent to it too.
IsJpegOrBmp(ext) == ext \in {".jpg", ".bmp"}

\* Line 192: `file_ext in ['.jpg', '.jpeg']`.
IsJpeg(ext) == ext = ".jpg"

\* compress_jpeg (95-116), from the dispatch of lines 192-193.
CompressJpeg(j) ==
    /\ pc[j] = "L192"
    /\ IsJpeg(file_ext[j])
    /\ LET n == temp_path[j]
           c == scratch[n]
       IN  IF available_tools["mozjpeg"]
           THEN /\ calls' = Invoke(j, "cjpeg")
                /\ \/ \E s \in Sizes :   \* 100-107: cjpeg exits 0, os.replace
                        /\ scratch' = [scratch EXCEPT ![n] = ToolOutput(c, s)]
                        /\ compressed' = [compressed EXCEPT ![j] = TRUE]
                        /\ tmpout' = [tmpout EXCEPT ![n] = NoFile]
                        /\ events' = Note(j, "ok")
                   \/ \E f \in Leftovers(c) :   \* 111-116: cjpeg fails
                        /\ tmpout' = [tmpout EXCEPT ![n] = f]
                        /\ compressed' = [compressed EXCEPT ![j] = FALSE]
                        /\ events' = Note(j, "failed")
                        /\ UNCHANGED scratch
           ELSE /\ compressed' = [compressed EXCEPT ![j] = FALSE]   \* 109-110
                /\ UNCHANGED <<scratch, tmpout, calls, events>>
    /\ pc' = [pc EXCEPT ![j] = "L202"]
    /\ UNCHANGED <<cfgVars, past, orig, mirror, stats, original_size, temp_path,
                   compressed_size, raised, ret, reg, loaded, orchVars,
                   pre, art, bk, runs, incs, outcome>>

\* compress_png, lines 120-131: the pngquant stage.
PngQuant(j) ==
    /\ pc[j] = "L192"
    /\ file_ext[j] = ".png"
    /\ LET n == temp_path[j]
           c == scratch[n]
       IN  IF available_tools["pngquant"]
           THEN /\ calls' = Invoke(j, "pngquant")
                /\ \/ \E s \in Sizes :   \* returncode 0, output exists
                        /\ scratch' = [scratch EXCEPT ![n] = ToolOutput(c, s)]
                        /\ compressed' = [compressed EXCEPT ![j] = TRUE]
                        /\ pc' = [pc EXCEPT ![j] = "L134"]
                        /\ tmpout' = [tmpout EXCEPT ![n] = NoFile]
                        /\ events' = Note(j, "ok")
                   \/ \E f \in Leftovers(c) :   \* returncode # 0
                        /\ tmpout' = [tmpout EXCEPT ![n] = f]
                        /\ compressed' = [compressed EXCEPT ![j] = FALSE]
                        /\ pc' = [pc EXCEPT ![j] = "L134"]
                        /\ events' = Note(j, "failed")
                        /\ UNCHANGED scratch
                   \/ /\ compressed' = [compressed EXCEPT ![j] = FALSE]   \* 151-153
                      /\ pc' = [pc EXCEPT ![j] = "L202"]
                      /\ events' = Note(j, "raised")
                      /\ UNCHANGED <<scratch, tmpout>>
           ELSE /\ compressed' = [compressed EXCEPT ![j] = FALSE]
                /\ pc' = [pc EXCEPT ![j] = "L134"]
                /\ UNCHANGED <<scratch, tmpout, calls, events>>
    /\ UNCHANGED <<cfgVars, past, orig, mirror, stats, original_size, temp_path,
                   compressed_size, raised, ret, reg, loaded, orchVars,
                   pre, art, bk, runs, incs, outcome>>

\* Faulty variant of LosslessTool: optipng is run without consulting
\* available_tools.
LosslessToolUnprobed == "optipng"

\* Faulty variant of LosslessTool: the two branches in the other order.
LosslessPrefersZopfli ==
    IF available_tools["zopflipng"] THEN "zopflipng"
    ELSE IF available_tools["optipng"] THEN "optipng"
    ELSE "none"

\* Lines 134 and 141: optipng if it is available, else zopflipng if it is.
LosslessTool ==
    IF available_tools["optipng"] THEN "optipng"
    ELSE IF available_tools["zopflipng"] THEN "zopflipng"
    ELSE "none"

\* A tool that rewrites the scratch file in place under check=True
\* (optipng 135-138, zopflipng 142-145, gifsicle 159-162): it returns and
\* the strategy's result is True, or it raises and the strategy returns False.
InPlace(j, tool) ==
    LET n == temp_path[j]
        c == scratch[n]
    IN  /\ calls' = Invoke(j, tool)
        /\ \/ \E s \in Sizes :
                /\ scratch' = [scratch EXCEPT ![n] = ToolOutput(c, s)]
                /\ compressed' = [compressed EXCEPT ![j] = TRUE]
                /\ events' = Note(j, "ok")
           \/ /\ compressed' = [compressed EXCEPT ![j] = FALSE]
              /\ events' = Note(j, "failed")
              /\ UNCHANGED scratch

\* compress_png, lines 133-153: the lossless stage and the return.
PngLossless(j) ==
    /\ pc[j] = "L134"
    /\ IF LosslessTool # "none"
       THEN InPlace(j, LosslessTool)
       ELSE UNCHANGED <<scratch, compressed, calls, events>>   \* 147
    /\ pc' = [pc EXCEPT ![j] = "L202"]
    /\ UNCHANGED <<cfgVars, past, orig, mirror, tmpout, stats, original_size,
                   temp_path, compressed_size, raised, ret, reg, loaded, orchVars,
                   pre, art, bk, runs, incs, outcome>>

\* compress_gif (155-169), from the dispatch of lines 196-197.
CompressGif(j) ==
    /\ pc[j] = "L192"
    /\ file_ext[j] = ".gif"
    /\ IF available_tools["gifsicle"]
       THEN InPlace(j, "gifsicle")
       ELSE /\ compressed' = [compressed EXCEPT ![j] = FALSE]   \* 163
            /\ UNCHANGED <<scratch, calls, events>>
    /\ pc' = [pc EXCEPT ![j] = "L202"]
    /\ UNCHANGED <<cfgVars, past, orig, mirror, tmpout, stats, original_size,
                   temp_path, compressed_size, raised, ret, reg, loaded, orchVars,
                   pre, art, bk, runs, incs, outcome>>

\* Lines 198-200: any other extension returns False.
Unsupported(j) ==
    /\ pc[j] = "L192"
    /\ ~IsJpeg(file_ext[j])
    /\ file_ext[j] \notin {".png", ".gif"}
    /\ pc' = [pc EXCEPT ![j] = "L227"]
    /\ events' = Note(j, "unsupported")
    /\ UNCHANGED <<cfgVars, past, fsVars, stats, original_size, temp_path,
                   compressed, compressed_size, raised, ret, reg, loaded,
                   orchVars, pre, art, bk, calls, runs, incs, outcome>>

\* Lines 202-208 and 221-223: no tool output returns False; otherwise the
\* scratch file is measured and compared with original_size.
Measure(j) ==
    /\ pc[j] = "L202"
    /\ IF compressed[j]
       THEN LET new == scratch[temp_path[j]].size
            IN  /\ compressed_size' = [compressed_size EXCEPT ![j] = new]
                /\ pc' = [pc EXCEPT ![j] =
                            IF SizeGate(new, original_size[j])
                            THEN "L210" ELSE "L227"]
                /\ events' = Note(j, IF SizeGate(new, original_size[j])
                                     THEN "smaller" ELSE "not smaller")
       ELSE /\ pc' = [pc EXCEPT ![j] = "L227"]
            /\ events' = Note(j, "no output")
            /\ UNCHANGED compressed_size
    /\ UNCHANGED <<cfgVars, past, fsVars, stats, original_size, temp_path,
                   compressed, raised, ret, reg, loaded, orchVars,
                   pre, art, bk, calls, runs, incs, outcome>>

\* Line 210, shutil.copy2(temp_path, input_path): it raises before opening
\* the destination, stops while writing it, raises in copystat after the
\* bytes are written, or returns.
Commit(j) ==
    /\ pc[j] = "L210"
    /\ LET c == scratch[temp_path[j]]
       IN  /\ art' = [art EXCEPT ![j] = c]
           /\ \/ /\ orig' = [orig EXCEPT ![j] = c]
                 /\ pc' = [pc EXCEPT ![j] = "L213"]
                 /\ UNCHANGED raised
              \/ /\ \E f \in {orig[j], c} \cup Partials(c) :
                        orig' = [orig EXCEPT ![j] = f]
                 /\ raised' = [raised EXCEPT ![j] = TRUE]
                 /\ pc' = [pc EXCEPT ![j] = "L227"]
    /\ UNCHANGED <<cfgVars, past, mirror, scratch, tmpout, stats, original_size,
                   temp_path, compressed, compressed_size, ret, reg, loaded,
                   orchVars, pre, bk, calls, events, runs, incs, outcome>>

\* ------------------------------------------------- self.stats[k] += v
IncLabels == {"L213", "L214", "L215", "L216", "L232", "L243"}

IncKey(l) ==
    CASE l = "L213" -> "compressed"
      [] l = "L214" -> "original_size"
      [] l = "L215" -> "compressed_size"
      [] l = "L216" -> "space_saved"
      [] l = "L232" -> "failed"
      [] l = "L243" -> "processed"

IncBy(j, l) ==
    CASE l = "L214" -> original_size[j]
      [] l = "L215" -> compressed_size[j]
      [] l = "L216" -> original_size[j] - compressed_size[j]
      [] OTHER -> 1

\* Faulty variant of IncNext: the increment of processed is the last
\* statement of the try block and the except clauses return past it.
IncNextNoFinally(l) ==
    CASE l = "L213" -> "L214"
      [] l = "L214" -> "L215"
      [] l = "L215" -> "L216"
      [] l = "L216" -> "L227"
      [] l = "L232" -> "done"
      [] l = "L243" -> "done"

\* The statement after each increment: 213-216 run in sequence and
\* `return True` (220) enters the finally clause of 225; the handlers
\* (232, 236, 240) return through the finally clause of 243.
IncNext(l) ==
    CASE l = "L213" -> "L214"
      [] l = "L214" -> "L215"
      [] l = "L215" -> "L216"
      [] l = "L216" -> "L227"
      [] l = "L232" -> "L243"
      [] l = "L243" -> "done"

\* The read of self.stats[k].
Load(j) ==
    /\ pc[j] \in IncLabels
    /\ ~loaded[j]
    /\ reg' = [reg EXCEPT ![j] = stats[IncKey(pc[j])]]
    /\ loaded' = [loaded EXCEPT ![j] = TRUE]
    /\ UNCHANGED <<cfgVars, past, fsVars, stats, pc, original_size, temp_path,
                   compressed, compressed_size, raised, ret, orchVars,
                   histVars>>

\* The terminal outcome of a job, from how compress_image returned: True
\* (220), through an except clause (230-241), or False.
Outcome(j) ==
    IF raised[j] THEN "Failed"
    ELSE IF ret[j] THEN "Compressed"
    ELSE "Skipped"

\* The write of self.stats[k]: the value read plus the increment.  The
\* store of line 216 is followed by `return True` (220), the store of line
\* 243 by the return of compress_image.
Store(j) ==
    /\ pc[j] \in IncLabels
    /\ loaded[j]
    /\ stats' = [stats EXCEPT ![IncKey(pc[j])] = reg[j] + IncBy(j, pc[j])]
    /\ reg' = [reg EXCEPT ![j] = 0]
    /\ loaded' = [loaded EXCEPT ![j] = FALSE]
    /\ incs' = [incs EXCEPT ![j][IncKey(pc[j])] = @ + 1]
    /\ ret' = [ret EXCEPT ![j] = @ \/ pc[j] = "L216"]
    /\ outcome' = [outcome EXCEPT ![j] =
                     IF pc[j] = "L243" THEN Outcome(j) ELSE @]
    /\ pc' = [pc EXCEPT ![j] = IncNext(pc[j])]
    /\ UNCHANGED <<cfgVars, past, fsVars, original_size, temp_path, compressed,
                   compressed_size, raised, orchVars, pre, art, bk, calls, events,
                   runs>>

\* Faulty variant of FinallyUnlinks: the scratch file is removed only after
\* `return True`.
UnlinkOnlyAfterCommit(j) == ret[j] /\ Exists(scratch[temp_path[j]])

\* Line 227.
FinallyUnlinks(j) == Exists(scratch[temp_path[j]])

\* Lines 225-228, then the except clause if an exception is in flight,
\* else the outer finally.  The locals of the inner try are dead from here
\* on and are cleared.
Cleanup(j) ==
    /\ pc[j] = "L227"
    /\ scratch' = IF FinallyUnlinks(j)
                  THEN [scratch EXCEPT ![temp_path[j]] = NoFile]
                  ELSE scratch
    /\ pc' = [pc EXCEPT ![j] = IF raised[j] THEN ExceptHandler(j) ELSE "L243"]
    /\ original_size' = [original_size EXCEPT ![j] = 0]
    /\ temp_path' = [temp_path EXCEPT ![j] = 0]
    /\ compressed' = [compressed EXCEPT ![j] = FALSE]
    /\ compressed_size' = [compressed_size EXCEPT ![j] = 0]
    /\ UNCHANGED <<cfgVars, past, orig, mirror, tmpout, stats, raised, ret, reg,
                   loaded, orchVars, histVars>>

\* --------------------------------------------- process_files (271-291)
\* Faulty variant of Completed: a job counts as soon as it has started.
StartedJobs == {j \in Jobs : pc[j] # "idle"}

\* The futures as_completed yields, the jobs the executor's shutdown no
\* longer waits for, and the call of line 278 that has returned: a job
\* whose compress_image has run to its end.
Completed == {j \in Jobs : pc[j] = "done"}

Running == {j \in Jobs : pc[j] \notin {"idle", "done"}}

\* Faulty variant of Dequeue: the work item stays in the queue.
KeepInQueue(q) == q

\* A worker thread takes the first work item off the executor's queue.
Dequeue(q) == Tail(q)

\* Lines 273-275.
ProcessFiles ==
    /\ opc = "L273"
    /\ stats' = [stats EXCEPT !["total_files"] = nfiles]
    /\ opc' = IF max_workers = 1 THEN "L277" ELSE "L284"
    /\ UNCHANGED <<cfgVars, past, fsVars, jobVars, idx, queue, pbar, snapshot,
                   histVars>>

\* Lines 277-278, max_workers == 1: the call of compress_image.
SeqCall ==
    /\ opc = "L277"
    /\ idx <= nfiles
    /\ pc' = [pc EXCEPT ![idx] = "L175"]
    /\ runs' = [runs EXCEPT ![idx] = @ + 1]
    /\ opc' = "L278"
    /\ UNCHANGED <<cfgVars, past, fsVars, stats, original_size, temp_path,
                   compressed, compressed_size, raised, ret, reg, loaded,
                   idx, queue, pbar, snapshot, pre, art, bk, calls, events, incs,
                   outcome>>

\* The call of line 278 returns and the loop takes the next file.
SeqReturn ==
    /\ opc = "L278"
    /\ idx \in Completed
    /\ idx' = idx + 1
    /\ pbar' = pbar + 1
    /\ opc' = "L277"
    /\ UNCHANGED <<cfgVars, past, fsVars, stats, jobVars, queue, snapshot,
                   histVars>>

\* Lines 283-286: executor.submit for each file, in list order (one step:
\* a work item that is not yet submitted and one that no worker has taken
\* yet are alike to every other thread).
Submit ==
    /\ opc = "L284"
    /\ queue' = [i \in 1..nfiles |-> i]
    /\ idx' = nfiles + 1
    /\ opc' = "L290"
    /\ UNCHANGED <<cfgVars, past, fsVars, stats, jobVars, pbar, snapshot,
                   histVars>>

\* A thread of the pool (at most max_workers of them) starts the work item.
WorkerRun(j) ==
    /\ queue # <<>>
    /\ j = Head(queue)
    /\ Cardinality(Running) < max_workers
    /\ queue' = Dequeue(queue)
    /\ pc' = [pc EXCEPT ![j] = "L175"]
    /\ runs' = [runs EXCEPT ![j] = @ + 1]
    /\ UNCHANGED <<cfgVars, past, fsVars, stats, original_size, temp_path,
                   compressed, compressed_size, raised, ret, reg, loaded,
                   opc, idx, pbar, snapshot, pre, art, bk, calls, events, incs,
                   outcome>>

\* Line 277 with the list exhausted: the sequential loop ends.
SeqDone ==
    /\ opc = "L277"
    /\ idx > nfiles
    /\ opc' = "L412"
    /\ UNCHANGED <<cfgVars, past, fsVars, stats, jobVars, idx, queue, pbar,
                   snapshot, histVars>>

\* Lines 289-291 and the end of the `with` of line 281: as_completed has
\* yielded every future (pbar.update(1) for each, taken here in one step:
\* nothing else reads pbar) and the executor's shutdown(wait=True) has
\* joined the workers.
PoolDone ==
    /\ opc = "L290"
    /\ Completed = Jobs
    /\ pbar' = nfiles
    /\ opc' = "L412"
    /\ UNCHANGED <<cfgVars, past, fsVars, stats, jobVars, idx, queue, snapshot,
                   histVars>>

\* main, line 414: print_summary reads self.stats (298-320).
PrintSummary ==
    /\ opc = "L412"
    /\ snapshot' = stats
    /\ opc' = "L416"
    /\ UNCHANGED <<cfgVars, past, fsVars, stats, jobVars, idx, queue, pbar,
                   histVars>>

\* main (324-416) is run again on the same directory with the same
\* arguments, after the earlier run has returned: a new ImageCompressor
\* (372-376) with its counters at zero, the same capability set, and the
\* same list from find_image_files (380), which needs the files to exist.
\* The file system is as the earlier run left it.
Rerun ==
    /\ opc = "L416"
    /\ Len(past) + 1 < MaxRuns
    /\ \A j \in Jobs : Exists(orig[j])
    /\ past' = Append(past, [outcome |-> outcome, before |-> pre])
    /\ stats' = InitStats
    /\ pc' = [j \in Jobs |-> "idle"]
    /\ raised' = [j \in Jobs |-> FALSE]
    /\ ret' = [j \in Jobs |-> FALSE]
    /\ opc' = "L273"
    /\ idx' = 1
    /\ queue' = <<>>
    /\ pbar' = 0
    /\ snapshot' = InitStats
    /\ pre' = orig
    /\ art' = [j \in Jobs |-> NoFile]
    /\ bk' = [j \in Jobs |-> "none"]
    /\ calls' = [j \in Jobs |-> <<>>]
    /\ events' = [j \in Jobs |-> <<>>]
    /\ runs' = [j \in Jobs |-> 0]
    /\ incs' = [j \in Jobs |-> [k \in StatKeys |-> 0]]
    /\ outcome' = [j \in Jobs |-> "none"]
    /\ UNCHANGED <<cfgVars, fsVars, original_size, temp_path, compressed,
                   compressed_size, reg, loaded>>

Next ==
    \/ ProcessFiles
    \/ SeqCall
    \/ SeqReturn
    \/ SeqDone
    \/ Submit
    \/ \E j \in Jobs : WorkerRun(j)
    \/ PoolDone
    \/ PrintSummary
    \/ \E j \in Jobs : GetSize(j)
    \/ \E j \in Jobs : CreateBackup(j)
    \/ \E j \in Jobs : MakeTemp(j)
    \/ \E j \in Jobs : CopyToTemp(j)
    \/ \E j \in Jobs : CompressJpeg(j)
    \/ \E j \in Jobs : PngQuant(j)
    \/ \E j \in Jobs : PngLossless(j)
    \/ \E j \in Jobs : CompressGif(j)
    \/ \E j \in Jobs : Unsupported(j)
    \/ \E j \in Jobs : Measure(j)
    \/ \E j \in Jobs : Commit(j)
    \/ \E j \in Jobs : Load(j)
    \/ \E j \in Jobs : Store(j)
    \/ \E j \in Jobs : Cleanup(j)

Spec == Init /\ [][Next]_vars

\* Every thread that can take a step eventually takes one: the operating
\* system schedules the main thread and the pool's threads, and every tool
\* invocation returns.
FairSpec == Spec /\ WF_vars(Next)

NextRerun ==
    \/ Next
    \/ Rerun

\* The first of several runs of main on a directory with one file, on a
\* host with every tool installed or with none: every backup setting, every
\* extension and size.  (The strategies alone read the capability set.)
InitRerun ==
    /\ InitSingle
    /\ \/ \A t \in Tools : available_tools[t]
       \/ \A t \in Tools : ~available_tools[t]

\* Runs of main, one after the other, with the same arguments.
RerunSpec == InitRerun /\ [][NextRerun]_vars

\* ================================================================ claims
BackupsActive == backup_enabled /\ ~force_no_backup_check
Returned == opc \in {"L412", "L416"}
Ended(j) == pc[j] = "done"
EndedAs(o) == {j \in Jobs : Ended(j) /\ outcome[j] = o}
InInnerTry(j) ==
    pc[j] \in {"L188", "L192", "L134", "L202", "L210",
               "L213", "L214", "L215", "L216", "L227"}

RECURSIVE SumOver(_, _)
SumOver(S, f) ==
    IF S = {} THEN 0
    ELSE LET j == CHOOSE x \in S : TRUE
         IN  f[j] + SumOver(S \ {j}, f)

\* C1 (No-loss): once a job has ended, its file holds what it held before
\* the job if the job ended Skipped or Failed, and the complete scratch
\* artifact if it ended Compressed.
C1_NoLoss ==
    \A j \in Jobs :
        Ended(j) =>
            \/ outcome[j] \in {"Skipped", "Failed"} /\ orig[j] = pre[j]
            \/ outcome[j] = "Compressed" /\ orig[j] = art[j] /\ art[j].whole

\* C2 (Size-gate): a job reaches the overwrite of line 210 only with a
\* scratch file strictly smaller than the size measured at line 175; the
\* size it adds to the totals is the size of the artifact it wrote; a job
\* that incremented stats['compressed'] or ended Compressed wrote an
\* artifact strictly smaller than its original.
C2_SizeGate ==
    \A j \in Jobs :
        /\ pc[j] = "L210" =>
              /\ scratch[temp_path[j]].size < original_size[j]
              /\ original_size[j] = pre[j].size
        /\ pc[j] \in {"L213", "L214", "L215", "L216"} =>
              /\ compressed_size[j] = art[j].size
              /\ original_size[j] = pre[j].size
        /\ (incs[j]["compressed"] > 0 \/ outcome[j] = "Compressed") =>
              /\ Exists(art[j])
              /\ orig[j] = art[j]
              /\ art[j].size < pre[j].size

C2_Witness ==
    \E j \in Jobs : outcome[j] = "Compressed" /\ incs[j]["compressed"] = 1

\* C3 (Backup-before-mutate): with backups enabled and not overridden, when
\* a job is about to overwrite its original (line 210) the mirror holds the
\* original's content, which is still the content from before the job; and
\* once the overwrite has been attempted the mirror still holds it.
C3_BackupBeforeMutate ==
    BackupsActive =>
        \A j \in Jobs :
            /\ pc[j] = "L210" =>
                  bk[j] = "ok" /\ mirror[j] = orig[j] /\ orig[j] = pre[j]
            /\ (Exists(art[j]) \/ orig[j] # pre[j]) =>
                  bk[j] = "ok" /\ mirror[j] = pre[j] /\ pre[j].whole

C3_Witness ==
    /\ BackupsActive
    /\ \E j \in Jobs : Exists(art[j]) /\ orig[j] = art[j] /\ orig[j] # pre[j]

\* C4 (Backup failure is a hard gate): with backups enabled and not
\* overridden, a job whose create_backup failed has no scratch file, has
\* invoked no tool, leaves its original as it was, increments none of
\* compressed, original_size, compressed_size and space_saved, and ends
\* not Compressed after incrementing processed once; in a run on that file
\* alone the counters read processed 1 and compressed and byte totals 0.
C4_BackupGate ==
    BackupsActive =>
        \A j \in Jobs :
            bk[j] = "failed" =>
                /\ temp_path[j] = 0
                /\ ~InInnerTry(j)
                /\ calls[j] = <<>>
                /\ orig[j] = pre[j]
                /\ \A k \in {"compressed", "original_size",
                             "compressed_size", "space_saved"} :
                        incs[j][k] = 0
                /\ Ended(j) =>
                      /\ outcome[j] # "Compressed"
                      /\ incs[j]["processed"] = 1
                      /\ nfiles = 1 =>
                            /\ stats["processed"] = 1
                            /\ stats["compressed"] = 0
                            /\ stats["original_size"] = 0
                            /\ stats["compressed_size"] = 0
                            /\ stats["space_saved"] = 0

C4_Witness ==
    /\ BackupsActive
    /\ \E j \in Jobs : bk[j] = "failed" /\ Ended(j) /\ Exists(pre[j])

\* C5 (Stats consistency without lost updates): after process_files has
\* returned, processed is the number of jobs, compressed the number of jobs
\* that ended Compressed and failed the number that ended Failed.
C5_StatsConsistent ==
    Returned =>
        /\ stats["processed"] = nfiles
        /\ stats["compressed"] = Cardinality(EndedAs("Compressed"))
        /\ stats["failed"] = Cardinality(EndedAs("Failed"))

\* The totals a run with max_workers == 1 ends with, given how each job
\* ended and what it measured.
SequentialTotals ==
    LET done == EndedAs("Compressed")
        before == [j \in Jobs |-> pre[j].size]
        after == [j \in Jobs |-> art[j].size]
    IN  [total_files |-> nfiles,
         processed |-> nfiles,
         compressed |-> Cardinality(done),
         failed |-> Cardinality(EndedAs("Failed")),
         original_size |-> SumOver(done, before),
         compressed_size |-> SumOver(done, after),
         space_saved |-> SumOver(done, before) - SumOver(done, after)]

\* C6 (Determinism of totals across worker counts): whatever max_workers
\* is, a run in which the jobs end the same way ends with the final stats
\* of the run with max_workers == 1.
C6_TotalsDeterministic ==
    Returned => stats = SequentialTotals

\* C7 (Exactly-once dispatch): no job is started twice; a job that is no
\* longer waiting was started once; after process_files has returned every
\* job of the list was started once, the Failed ones included.
C7_ExactlyOnce ==
    \A j \in Jobs :
        /\ runs[j] <= 1
        /\ pc[j] # "idle" => runs[j] = 1
        /\ Returned => runs[j] = 1 /\ Ended(j)

C7_Witness ==
    /\ Returned
    /\ max_workers > 1
    /\ nfiles > 1
    /\ \E j \in Jobs : outcome[j] = "Failed"

\* C8 (Barrier before reporting): once process_files has returned every
\* job has ended and no increment is pending, and the snapshot print_summary
\* took is the value the statistics keep.
C8_Barrier ==
    /\ Returned => \A j \in Jobs : Ended(j) /\ ~loaded[j]
    /\ opc = "L416" => snapshot = stats

C8_Witness ==
    /\ opc = "L416"
    /\ max_workers > 1
    /\ nfiles > 1
    /\ snapshot["processed"] > 0

\* C9 (Per-job error containment): every run reaches the summary with every
\* job of the list ended as Compressed, Skipped or Failed, whichever errors
\* the jobs met.
AllEnded ==
    /\ opc = "L416"
    /\ \A j \in Jobs :
          Ended(j) /\ outcome[j] \in {"Compressed", "Skipped", "Failed"}

C9_Containment == <>AllEnded

C9_Witness ==
    /\ AllEnded
    /\ \E j, k \in Jobs : outcome[j] = "Failed" /\ outcome[k] = "Compressed"

Has(j, e) == \E i \in DOMAIN events[j] : events[j][i] = e
ByteKeys == {"original_size", "compressed_size", "space_saved"}
AfterMeasure == {"L210", "L213", "L214", "L215", "L216", "L227"}

\* The statistics of a run on one file in which only processed was
\* incremented.
OnlyProcessed ==
    [k \in StatKeys |-> IF k \in {"total_files", "processed"} THEN 1 ELSE 0]

UnsupportedJobs == {j \in Jobs : file_ext[j] = ".bmp"}

NoCapability(j) ==
    \/ file_ext[j] = ".jpg" /\ ~available_tools["mozjpeg"]
    \/ file_ext[j] = ".gif" /\ ~available_tools["gifsicle"]
    \/ /\ file_ext[j] = ".png"
       /\ \A t \in {"pngquant", "optipng", "zopflipng"} : ~available_tools[t]

\* The strategy has returned and the one tool it invoked did not succeed.
StrategyReturned(j) ==
    pc[j] = "L202" \/ \E e \in {"no output", "smaller", "not smaller"} : Has(j, e)
OnlyToolFailed(j) ==
    /\ StrategyReturned(j)
    /\ Len(calls[j]) = 1
    /\ events[j][1] \in {"failed", "raised"}

SomeStageOk(j) == \E i \in 1..Len(calls[j]) : events[j][i] = "ok"
QuantFailed(j) ==
    /\ calls[j] # <<>>
    /\ calls[j][1] = "pngquant"
    /\ events[j][1] = "failed"

\* C14 (PNG chain result): when compress_png has returned for a PNG job of
\* which at least one stage ran successfully, its result is True and the job
\* goes on to the size comparison of line 208, also when pngquant succeeded
\* and the lossless stage after it failed; and a pngquant that exited
\* non-zero is followed by the lossless stage whenever one is available.
C14_PngChain ==
    \A j \in Jobs :
        file_ext[j] = ".png" /\ StrategyReturned(j) =>
            /\ SomeStageOk(j) =>
                  /\ pc[j] = "L202" => compressed[j]
                  /\ pc[j] # "L202" => ~Has(j, "no output")
            /\ (QuantFailed(j) /\ LosslessTool # "none") =>
                  Len(calls[j]) = 2 /\ calls[j][2] = LosslessTool

\* The second half of C14 alone.
QuantFailureDoesNotStopChain ==
    \A j \in Jobs :
        (file_ext[j] = ".png" /\ StrategyReturned(j)
            /\ QuantFailed(j) /\ LosslessTool # "none") =>
                Len(calls[j]) = 2 /\ calls[j][2] = LosslessTool

\* The outcome job j had in the run of main before this one.
EarlierRun == past # <<>>
EarlierOutcome(j) == past[Len(past)].outcome[j]

\* C15 (Idempotence of re-run): in a run of main that follows one in which
\* the job on the same file ended Compressed, with the same arguments and
\* capability set, the job never passes the size comparison and never
\* writes the file, which keeps the content the earlier run left; when its
\* strategy produced output the job ends Skipped as not smaller.
C15_RerunIdempotent ==
    \A j \in Jobs :
        (EarlierRun /\ EarlierOutcome(j) = "Compressed") =>
            /\ ~Has(j, "smaller")
            /\ orig[j] = pre[j]
            /\ (Ended(j) /\ SomeStageOk(j) /\ ~raised[j]) =>
                  outcome[j] = "Skipped" /\ Has(j, "not smaller")

Called(j, t) == \E i \in DOMAIN calls[j] : calls[j][i] = t
Position(j, t) == CHOOSE i \in DOMAIN calls[j] : calls[j][i] = t
OkCount(j) == Cardinality({i \in 1..Len(calls[j]) : events[j][i] = "ok"})

\* compress_png has returned after going through its lossless stage (lines
\* 134-147): the call of pngquant, if there was one, did not raise.
LosslessStageDone(j) ==
    /\ StrategyReturned(j)
    /\ ~(Called(j, "pngquant") /\ events[j][1] = "raised")

NoJobInProgress == \A j \in Jobs : pc[j] \in {"idle", "done"}

\* C18 (No leaked temporary files): whenever no job is in progress, neither
\* a scratch file nor a "<scratch>.tmp" file that cjpeg or pngquant wrote
\* exists: every job that has reached its terminal outcome has removed the
\* temporary files created during it.
C18_NoLeak ==
    NoJobInProgress =>
        \A n \in ScratchNames : ~Exists(scratch[n]) /\ ~Exists(tmpout[n])

\* The scratch files alone.
NoScratchLeft ==
    NoJobInProgress => \A n \in ScratchNames : ~Exists(scratch[n])

\* C19 (Backup mirror holds only the latest pre-job state): with backups
\* enabled and not overridden, from the moment a job's backup step has
\* succeeded the mirror holds the content the source had at the start of
\* that job, whatever the job's format and outcome; when the job of the
\* earlier run on that file ended Compressed, this is the compressed
\* content and no longer what that earlier job started from.
C19_MirrorLatest ==
    BackupsActive =>
        \A j \in Jobs :
            bk[j] = "ok" =>
                /\ mirror[j] = pre[j]
                /\ (EarlierRun /\ EarlierOutcome(j) = "Compressed") =>
                      /\ mirror[j] # past[Len(past)].before[j]
                      /\ mirror[j].ver > past[Len(past)].before[j].ver

C19_Witness ==
    /\ BackupsActive
    /\ EarlierRun
    /\ \E j \in Jobs :
          /\ EarlierOutcome(j) = "Compressed"
          /\ bk[j] = "ok"
          /\ Ended(j)
          /\ outcome[j] = "Skipped"
          /\ mirror[j] = orig[j]

ByteTotalsHold ==
    LET done == EndedAs("Compressed")
        before == [j \in Jobs |-> pre[j].size]
        after == [j \in Jobs |-> art[j].size]
    IN  /\ stats["space_saved"] =
              stats["original_size"] - stats["compressed_size"]
        /\ stats["original_size"] = SumOver(done, before)
        /\ stats["compressed_size"] = SumOver(done, after)
        /\ stats["compressed"] > 0 =>
              stats["compressed_size"] < stats["original_size"]
        /\ stats["compressed"] = 0 =>
              \A k \in ByteKeys : stats[k] = 0

\* C20 (Byte-total invariant): whenever no job is in progress, for any
\* worker count, space_saved is original_size minus compressed_size, the
\* two are the sums of the original and the new sizes over the jobs that
\* ended Compressed, compressed_size is below original_size when compressed
\* is positive, and all three are 0 when compressed is 0.
C20_ByteTotals == NoJobInProgress => ByteTotalsHold

\* The same for the sequential loop alone.
SequentialByteTotals ==
    (max_workers = 1 /\ NoJobInProgress) => ByteTotalsHold
====
